---- MODULE Spec2Model ----
(***************************************************************************)
(* Model of the asset organizer of 3ds-Max-Asset-Manager:                  *)
(*   core/file_manager.py      FileManager (organize_assets, undo)         *)
(*   core/backup_manager.py    BackupManager (the spec's BackupJournal)    *)
(*   core/operation_history.py OperationHistory (the operation log)        *)
(*   core/asset_analyzer.py    the part of the analysis organize consumes  *)
(*                                                                         *)
(* The project tree is flat: the project root holds the directories maps,  *)
(* unused, subA and subB.  A path is <<directory, name>>; a name is the    *)
(* sequence of the "_"-separated tokens of the file's stem (every file has *)
(* the same supported texture extension).  A file's content is a record    *)
(* [fp, body]: fp is what the quick fingerprint sees (size, first and last *)
(* KiB), body is the rest.                                                 *)
(***************************************************************************)
EXTENDS Integers, Sequences, FiniteSets, TLC

\* ---------------------------------------------------------------- bounds
MaxFiles == 2        \* files in the initial project tree
MaxRuns == 1         \* organize_assets runs in one behaviour
NumSeeds == 2        \* distinct per-process string-hash seeds
NumBodies == 2       \* distinct file bodies sharing one fingerprint
MaxTree == 2         \* files in the analyzed folder
MaxStreams == 2      \* streams in a scene document
MaxBackups == 2      \* backup runs on disk when the purge is looked at alone
MaxInstances == 2    \* OperationHistory objects sharing the log file
MaxAppends == 3      \* entries appended to the shared log

\* ------------------------------------------------------------- constants
MAPS == "maps"
UNUSED == "unused"
ROOT == "root"
SUB_MAPS == "subA/maps"        \* a directory named maps inside subA
SUB_UNUSED == "subA/unused"    \* a directory named unused inside subA
ProjectName == "proj"          \* the name of the project root directory
Seeds == 1..NumSeeds
NoPath == <<"", <<>>>>
NoRun == 0

Contents == {[fp |-> 1, body |-> b] : b \in 1..NumBodies} \cup {[fp |-> 2, body |-> 1]}

\* The basenames the scene documents reference (lower case).
RefNames == {<<"tex">>}

\* Where a file of the initial tree may be.
InitPaths ==
    {<<MAPS, <<"tex">>>>, <<"subA", <<"tex">>>>, <<"subB", <<"tex">>>>,
     <<"subA", <<"noise">>>>, <<"subB", <<"noise">>>>,
     <<SUB_MAPS, <<"noise">>>>, <<SUB_UNUSED, <<"noise">>>>}

VARIABLES
    files,        \* the project tree: existing path -> content
    dirs,         \* the existing directories under the project root
    scenes,       \* the directories holding a scene document (analysis.scenes)
    analysis,     \* the AnalysisResult the caller holds: [valid, linked, unused]
    operations,   \* OperationHistory.operations of the FileManager
    historyFile,  \* the persisted operation log (MaxAssetManager_history.json)
    enable_backup,\* FileManager.enable_backup
    metadata,     \* FileManager.backup_manager.metadata, [has |-> FALSE] when None
    metaDisk,     \* backup_metadata.json of each project-hash folder: seed -> run -> entries
    bstore,       \* the backup files: <<seed, run, original path>> -> content
    seed,         \* the string-hash seed of the running process
    expired,      \* the runs whose timestamp is older than the retention threshold
    nextRun,      \* the number of organize runs started so far
    last,         \* the most recent call: its name, arguments and result
    tree,         \* the files the analyzer walks: records [dir, stem, ext]
    scene_doc,    \* the scene document given to parse_scene
    outside,      \* the reference paths outside the project at which a file exists
    parsed,       \* the SceneAssets parse_scene returned
    report,       \* the AnalysisResult analyze_folder returned
    instances     \* the operations lists of further OperationHistory objects

fvars == <<files, dirs, scenes, analysis, operations, historyFile, enable_backup,
          metadata, metaDisk, bstore, seed, expired, nextRun, last>>

\* the variables of the analyzer
avars == <<tree, scene_doc, outside, parsed, report>>

\* the variables of the OperationHistory objects beside the FileManager's
hvars == <<instances>>

vars == <<fvars, avars, hvars>>


\* ------------------------------------------------------------ filesystem
Exists(fs, p) == p \in DOMAIN fs

DirExists(ds, d) == d = ROOT \/ d \in ds

\* Path.parent of a directory
DirParent(d) == IF d \in {SUB_MAPS, SUB_UNUSED} THEN "subA" ELSE ROOT

\* Path.name of a directory
DirName(d) ==
    IF d = ROOT THEN ProjectName
    ELSE IF d = SUB_MAPS THEN MAPS
    ELSE IF d = SUB_UNUSED THEN UNUSED
    ELSE d

\* "folder == d or folder in d.parents"
Within(d, folder) == d = folder \/ folder = ROOT \/ (d # ROOT /\ DirParent(d) = folder)

\* Path.parent.name
ParentName(p) == DirName(p[1])

\* d and the directories above it, below the project root (mkdir parents=True)
WithParents(d) == {d, DirParent(d)} \ {ROOT}

\* The entries of directory d: its files, the scene document if it holds one,
\* and its subdirectories.
DirEmpty(fs, ds, sc, d) ==
    /\ d \notin sc
    /\ \A p \in DOMAIN fs : p[1] # d
    /\ \A c \in ds : c = d \/ DirParent(c) # d

Put(fs, p, c) == (p :> c) @@ fs

Remove(fs, p) == [q \in DOMAIN fs \ {p} |-> fs[q]]

\* All orders in which a set can be iterated.
Orders(S) ==
    {s \in [1..Cardinality(S) -> S] : \A i, j \in DOMAIN s : s[i] = s[j] => i = j}

RECURSIVE SelectPaths(_, _)
SelectPaths(s, keep) ==
    IF s = <<>> THEN <<>>
    ELSE IF Head(s) \in keep THEN <<Head(s)>> \o SelectPaths(Tail(s), keep)
         ELSE SelectPaths(Tail(s), keep)

Range(s) == {s[i] : i \in DOMAIN s}

IsPrefix(s, t) == Len(s) <= Len(t) /\ SubSeq(t, 1, Len(s)) = s

\* ------------------------------------------------------ OperationHistory
Operation(type, source, destination, success, error, backup_id, base_folder, c, backed) ==
    [type |-> type, source |-> source, destination |-> destination,
     success |-> success, error |-> error, backup_id |-> backup_id,
     base_folder |-> base_folder,
     content |-> c,       \* history: the content the operation acted on
     backed |-> backed]   \* history: the run's backup record held the source
                          \* when the filesystem call was made

\* add_operation with a slip: a RESTORE entry replaces the entry it corrects
add_operation_in_place(ops, op) ==
    IF op.type = "restore" /\ ops # <<>>
    THEN [ops EXCEPT ![Len(ops)] = op]
    ELSE Append(ops, op)

add_operation(ops, op) == Append(ops, op)

\* can_undo that lets a RESTORE entry be undone
can_undo_restore(ops) ==
    IF ops = <<>> THEN FALSE
    ELSE ops[Len(ops)].success

get_operations_by_backup_id(ops, backup_id) ==
    SelectSeq(ops, LAMBDA op : op.backup_id = backup_id)

\* "for op in operations_to_remove: operations.remove(op)"
remove_operations(ops, backup_id) ==
    SelectSeq(ops, LAMBDA op : op.backup_id # backup_id)

can_undo(ops) ==
    IF ops = <<>> THEN FALSE
    ELSE ops[Len(ops)].success /\ ops[Len(ops)].type # "restore"

\* --------------------------------------------------------- BackupManager
\* The operators below work on st, the state of the call so far.  Where one
\* reads "CHOOSE r \in {e : st \in {s}} : TRUE" it is e with st the value of s:
\* the state is computed once, as a statement works on the state it finds.
NoMetadata == [has |-> FALSE, m |-> <<>>]

\* BackupManager.__init__ and _load_metadata in a process whose hash seed is sd
BackupManagerInit(disk, sd) == [has |-> TRUE, m |-> disk[sd]]

HasEntry(m, run, p) ==
    run \in DOMAIN m /\ \E i \in DOMAIN m[run] : m[run][i].original = p

\* st is the state a call works on: [files, dirs, ops, meta, store, ...]
create_backup(st, sd, p, run) ==
    IF ~Exists(st.files, p) THEN st
    ELSE LET key == <<sd, run, p>>
             old == IF run \in DOMAIN st.meta THEN st.meta[run] ELSE <<>>
             entry == [original |-> p, backup |-> key]
         IN [st EXCEPT !.store = Put(st.store, key, st.files[p]),
                       !.meta = (run :> Append(old, entry)) @@ st.meta]

delete_backup(s, sd, run) ==
    CHOOSE r \in {(
    [st EXCEPT !.store = [k \in {x \in DOMAIN st.store : ~(x[1] = sd /\ x[2] = run)}
                             |-> st.store[k]],
               !.meta = [r \in DOMAIN st.meta \ {run} |-> st.meta[r]]]
        ) : st \in {s}} : TRUE

RECURSIVE DeleteRuns(_, _, _)
DeleteRuns(st, sd, runs) ==
    IF runs = {} THEN st
    ELSE LET r == CHOOSE x \in runs : TRUE
         IN DeleteRuns(delete_backup(st, sd, r), sd, runs \ {r})

\* cleanup_old_backups that takes every run for old
cleanup_old_backups_all(st, sd, old) == DeleteRuns(st, sd, DOMAIN st.meta)

cleanup_old_backups(st, sd, old) == DeleteRuns(st, sd, DOMAIN st.meta \cap old)

RECURSIVE RestoreEntries(_, _, _, _)
\* the loop of restore_backup: [files, dirs, count, raised] after the entries
\* es; denied: the original paths to which the operating system refuses to copy.
\* An exception leaves the loop: the try statement encloses the whole loop.
RestoreEntries(acc, store, es, denied) ==
    IF es = <<>> \/ acc.raised THEN acc
    ELSE LET e == Head(es)
         IN RestoreEntries(
                CHOOSE r \in {(
                    IF e.backup \in DOMAIN store
                    THEN IF e.original \in denied
                         THEN [a EXCEPT !.dirs = a.dirs \cup WithParents(e.original[1]),
                                        !.raised = TRUE]
                         ELSE [a EXCEPT !.files = Put(a.files, e.original, store[e.backup]),
                                        !.dirs = a.dirs \cup WithParents(e.original[1]),
                                        !.count = a.count + 1]
                    ELSE a
                    ) : a \in {acc}} : TRUE,
                store, Tail(es), denied)

\* restore_backup: [ok, files, dirs]
restore_backup(m, store, sd, fs, ds, run, denied) ==
    IF run \notin DOMAIN m THEN [ok |-> FALSE, files |-> fs, dirs |-> ds]
    ELSE IF ~\E k \in DOMAIN store : k[1] = sd /\ k[2] = run
         THEN [ok |-> FALSE, files |-> fs, dirs |-> ds]
         ELSE LET r == RestoreEntries([files |-> fs, dirs |-> ds, count |-> 0,
                                       raised |-> FALSE],
                                      store, m[run], denied)
              IN [ok |-> ~r.raised /\ r.count > 0, files |-> r.files, dirs |-> r.dirs]


\* ----------------------------------------------------------- FileManager
\* _get_file_hash with a slip: the text naming the file is always part of the hash
_get_file_hash_named(fs, p) ==
    IF Exists(fs, p) THEN [kind |-> "ok", fp |-> fs[p].fp, of |-> p]
    ELSE [kind |-> "error", fp |-> 0, of |-> p]

\* _get_file_hash(quick=True): the size and the MD5 of the first and last KiB,
\* or a text naming the file and the error when the file cannot be read
_get_file_hash(fs, p) ==
    IF Exists(fs, p) THEN [kind |-> "ok", fp |-> fs[p].fp, of |-> NoPath]
    ELSE [kind |-> "error", fp |-> 0, of |-> p]

_is_in_folder(p, folder) == Within(p[1], folder)

\* _is_file_in_scene_folder with a slip: only the first branch, every file
\* counts as inside
_is_file_in_scene_folder_always(p, sc) == TRUE

\* sc: the directories of the scene documents of the analysis
_is_file_in_scene_folder(p, sc) ==
    IF sc = {} THEN TRUE
    ELSE \E d \in sc : Within(p[1], d)

RECURSIVE UniqueFrom(_, _, _)
UniqueFrom(fs, path, counter) ==
    LET new_path == <<path[1], Append(path[2], ToString(counter))>>
    IN IF Exists(fs, new_path) THEN UniqueFrom(fs, path, counter + 1) ELSE new_path

\* _get_unique_name with a slip: the loop that looks for a free name is missing
_get_unique_name_taken(fs, path) == path

_get_unique_name(fs, path) ==
    IF Exists(fs, path) THEN UniqueFrom(fs, path, 1) ELSE path

MoveOperation(source, destination, action, success, error) ==
    [source |-> source, destination |-> destination, action |-> action,
     success |-> success, error |-> error]

\* The outcome of shutil.move / shutil.copy2 / unlink on source:
\* "" when it succeeds, else the error text.  denied: the sources for which
\* the operating system refuses the call.
FsError(st, source, dest_dir, denied) ==
    IF source \in denied THEN "access denied"
    ELSE IF ~Exists(st.files, source) \/ ~DirExists(st.dirs, dest_dir) THEN "os error"
    ELSE ""

\* _move_file with a slip: a failed call is logged but gets no MoveOperation
_move_file_unreported(s, source, dest_folder, copy_mode, backup_id, rename, denied, counted) ==
    CHOOSE r \in {(
    LET name == IF rename THEN Append(source[2], ParentName(source)) ELSE source[2]
        dest0 == <<dest_folder, name>>
        dest == IF Exists(st.files, dest0) THEN _get_unique_name(st.files, dest0) ELSE dest0
        err == FsError(st, source, dest_folder, denied)
        ok == err = ""
        c == IF Exists(st.files, source) THEN st.files[source] ELSE [fp |-> 0, body |-> 0]
        fs1 == IF ~ok THEN st.files
               ELSE IF copy_mode THEN Put(st.files, dest, c)
               ELSE Put(Remove(st.files, source), dest, c)
        base == IF st.has_bm THEN ROOT ELSE ""
        hop == Operation(IF copy_mode THEN "copy" ELSE "move", source, dest, ok, err,
                         backup_id, base, c, HasEntry(st.meta, backup_id, source))
        op == MoveOperation(source, dest, IF copy_mode THEN "copied" ELSE "moved", ok, err)
    IN [st EXCEPT !.files = fs1,
                  !.ops = add_operation(st.ops, hop),
                  !.res = IF ok THEN Append(st.res, op) ELSE st.res,
                  !.moved = IF counted /\ ok THEN st.moved + 1 ELSE st.moved]
        ) : st \in {s}} : TRUE

\* _move_file with a slip: the rename flag is ignored
_move_file_same_name(s, source, dest_folder, copy_mode, backup_id, rename, denied, counted) ==
    CHOOSE r \in {(
    LET dest0 == <<dest_folder, source[2]>>
        dest == IF Exists(st.files, dest0) THEN _get_unique_name(st.files, dest0) ELSE dest0
        err == FsError(st, source, dest_folder, denied)
        ok == err = ""
        c == IF Exists(st.files, source) THEN st.files[source] ELSE [fp |-> 0, body |-> 0]
        fs1 == IF ~ok THEN st.files
               ELSE IF copy_mode THEN Put(st.files, dest, c)
               ELSE Put(Remove(st.files, source), dest, c)
        base == IF st.has_bm THEN ROOT ELSE ""
        hop == Operation(IF copy_mode THEN "copy" ELSE "move", source, dest, ok, err,
                         backup_id, base, c, HasEntry(st.meta, backup_id, source))
        op == MoveOperation(source, dest, IF copy_mode THEN "copied" ELSE "moved", ok, err)
    IN [st EXCEPT !.files = fs1,
                  !.ops = add_operation(st.ops, hop),
                  !.res = Append(st.res, op),
                  !.moved = IF counted /\ ok THEN st.moved + 1 ELSE st.moved]
        ) : st \in {s}} : TRUE

\* _move_file.  st: [files, dirs, ops, meta, store, res, moved, deleted, skipped];
\* counted: the caller adds a successful operation to files_moved
_move_file(s, source, dest_folder, copy_mode, backup_id, rename, denied, counted) ==
    CHOOSE r \in {(
    LET name == IF rename THEN Append(source[2], ParentName(source)) ELSE source[2]
        dest0 == <<dest_folder, name>>
        dest == IF Exists(st.files, dest0) THEN _get_unique_name(st.files, dest0) ELSE dest0
        err == FsError(st, source, dest_folder, denied)
        ok == err = ""
        c == IF Exists(st.files, source) THEN st.files[source] ELSE [fp |-> 0, body |-> 0]
        fs1 == IF ~ok THEN st.files
               ELSE IF copy_mode THEN Put(st.files, dest, c)
               ELSE Put(Remove(st.files, source), dest, c)
        base == IF st.has_bm THEN ROOT ELSE ""
        hop == Operation(IF copy_mode THEN "copy" ELSE "move", source, dest, ok, err,
                         backup_id, base, c, HasEntry(st.meta, backup_id, source))
        op == MoveOperation(source, dest, IF copy_mode THEN "copied" ELSE "moved", ok, err)
    IN [st EXCEPT !.files = fs1,
                  !.ops = add_operation(st.ops, hop),
                  !.res = Append(st.res, op),
                  !.moved = IF counted /\ ok THEN st.moved + 1 ELSE st.moved]
        ) : st \in {s}} : TRUE

_delete_file(s, file_path, backup_id, denied) ==
    CHOOSE r \in {(
    LET err == FsError(st, file_path, file_path[1], denied)
        ok == err = ""
        c == IF Exists(st.files, file_path) THEN st.files[file_path] ELSE [fp |-> 0, body |-> 0]
        base == IF st.has_bm THEN ROOT ELSE ""
        hop == Operation("delete", file_path, NoPath, ok, err, backup_id, base, c,
                         HasEntry(st.meta, backup_id, file_path))
        op == MoveOperation(file_path, NoPath, "deleted_duplicate", ok, err)
    IN [st EXCEPT !.files = IF ok THEN Remove(st.files, file_path) ELSE st.files,
                  !.ops = add_operation(st.ops, hop),
                  !.res = Append(st.res, op),
                  !.deleted = IF ok THEN st.deleted + 1 ELSE st.deleted]
        ) : st \in {s}} : TRUE

\* "if self.enable_backup and backup_id: self.backup_manager.create_backup(...)"
Backup(st, cfg, p) ==
    IF cfg.enable_backup /\ cfg.backup_id # NoRun
    THEN create_backup(st, cfg.seed, p, cfg.backup_id)
    ELSE st

\* ProcessOther with a slip: the duplicate is deleted before it is backed up
ProcessOtherDeleteFirst(s, cfg, master_hash, other_file) ==
    CHOOSE r \in {(
    IF _get_file_hash(st.files, other_file) = master_hash /\ cfg.delete_duplicates
    THEN Backup(_delete_file(st, other_file, cfg.backup_id, cfg.denied), cfg, other_file)
    ELSE _move_file(Backup(st, cfg, other_file), other_file, MAPS,
                    ~_is_file_in_scene_folder(other_file, cfg.scenes),
                    cfg.backup_id, TRUE, cfg.denied, FALSE)
        ) : st \in {s}} : TRUE

\* One non-master member of a group of equally named linked files
\* (file_manager.py 222-240 and 270-287).
ProcessOther(s, cfg, master_hash, other_file) ==
    CHOOSE r \in {(
    IF _get_file_hash(st.files, other_file) = master_hash /\ cfg.delete_duplicates
    THEN _delete_file(Backup(st, cfg, other_file), other_file, cfg.backup_id, cfg.denied)
    ELSE _move_file(Backup(st, cfg, other_file), other_file, MAPS,
                    ~_is_file_in_scene_folder(other_file, cfg.scenes),
                    cfg.backup_id, TRUE, cfg.denied, FALSE)
        ) : st \in {s}} : TRUE

RECURSIVE ProcessOthers(_, _, _, _)
ProcessOthers(st, cfg, master_hash, others) ==
    IF others = <<>> THEN st
    ELSE ProcessOthers(ProcessOther(st, cfg, master_hash, Head(others)),
                       cfg, master_hash, Tail(others))

\* The last member of the group that lies in maps, NoPath if none.
RECURSIVE InMaps(_, _)
InMaps(file_paths, found) ==
    IF file_paths = <<>> THEN found
    ELSE InMaps(Tail(file_paths),
                IF _is_in_folder(Head(file_paths), MAPS) THEN Head(file_paths) ELSE found)

\* One iteration of "for file_name, file_paths in files_by_name.items()".
ProcessGroup(s, cfg, file_paths) ==
    CHOOSE r \in {(
    IF Len(file_paths) = 1
    THEN LET file_path == file_paths[1]
         IN IF _is_in_folder(file_path, MAPS)
            THEN [st EXCEPT !.skipped = st.skipped + 1]
            ELSE _move_file(Backup(st, cfg, file_path), file_path, MAPS,
                            ~_is_file_in_scene_folder(file_path, cfg.scenes),
                            cfg.backup_id, FALSE, cfg.denied, TRUE)
    ELSE LET in_maps == InMaps(file_paths, NoPath)
             others == SelectPaths(file_paths,
                                   {p \in Range(file_paths) : ~_is_in_folder(p, MAPS)})
         IN IF in_maps # NoPath
            THEN ProcessOthers(st, cfg, _get_file_hash(st.files, in_maps), others)
            ELSE LET master_file == others[1]
                     master_hash == _get_file_hash(st.files, master_file)
                     st1 == _move_file(Backup(st, cfg, master_file), master_file, MAPS,
                                       ~_is_file_in_scene_folder(master_file, cfg.scenes),
                                       cfg.backup_id, FALSE, cfg.denied, TRUE)
                 IN ProcessOthers(st1, cfg, master_hash, Tail(others))
        ) : st \in {s}} : TRUE


\* The names of the group keys of files_by_name, in insertion order.
RECURSIVE GroupNames(_, _)
GroupNames(paths, seen) ==
    IF paths = <<>> THEN <<>>
    ELSE IF Head(paths)[2] \in seen THEN GroupNames(Tail(paths), seen)
         ELSE <<Head(paths)[2]>> \o GroupNames(Tail(paths), seen \cup {Head(paths)[2]})

RECURSIVE ProcessGroups(_, _, _, _)
ProcessGroups(st, cfg, existing, names) ==
    IF names = <<>> THEN st
    ELSE ProcessGroups(
            ProcessGroup(st, cfg,
                         SelectPaths(existing, {p \in Range(existing) : p[2] = Head(names)})),
            cfg, existing, Tail(names))

\* Step 1 (file_manager.py 146-287): linked files into maps
CollectLinked(s, cfg, linked_files) ==
    CHOOSE r \in {(
        LET existing == SelectPaths(linked_files,
                                    {p \in Range(linked_files) : Exists(st.files, p)})
        IN ProcessGroups(st, cfg, existing, GroupNames(existing, {}))
        ) : st \in {s}} : TRUE

\* Step 2 (file_manager.py 290-317): unused files into unused
RECURSIVE MoveUnused(_, _, _)
MoveUnused(s, cfg, unused_files) ==
    IF unused_files = <<>> THEN s
    ELSE LET file_path == Head(unused_files)
         IN MoveUnused(
                CHOOSE r \in {(
                    IF ~Exists(st.files, file_path) \/ _is_in_folder(file_path, UNUSED)
                    THEN st
                    ELSE _move_file(Backup(st, cfg, file_path), file_path, UNUSED,
                                    ~_is_file_in_scene_folder(file_path, cfg.scenes),
                                    cfg.backup_id, FALSE, cfg.denied, FALSE)
                    ) : st \in {s}} : TRUE,
                cfg, Tail(unused_files))

\* _remove_empty_folders(base_folder, exclude_folders=[maps, unused])
\* the deepest folders first; a folder named maps or unused is passed over
RemoveAtDepth(fs, ds, sc, depth) ==
    ds \ {d \in ds : /\ Cardinality(WithParents(d)) = depth
                      /\ d \notin {MAPS, UNUSED}
                      /\ DirName(d) \notin {MAPS, UNUSED}
                      /\ DirEmpty(fs, ds, sc, d)}

_remove_empty_folders(fs, ds, sc) == RemoveAtDepth(fs, RemoveAtDepth(fs, ds, sc, 2), sc, 1)

\* organize_assets up to the creation of the maps folder (file_manager.py
\* 114-127): the backup manager is made and old backups are cleaned up
StartRun(pre, cfg) ==
    CHOOSE r \in {(
        IF cfg.create_maps_folder THEN [st EXCEPT !.dirs = st.dirs \cup {MAPS}] ELSE st
        ) : st \in {IF cfg.enable_backup
                    THEN cleanup_old_backups(
                             [pre EXCEPT !.meta = BackupManagerInit(cfg.disk, cfg.seed).m,
                                         !.has_bm = TRUE],
                             cfg.seed, cfg.expired)
                    ELSE pre}} : TRUE

\* The unused folder is made when some unused file exists (file_manager.py 129-143)
CreateUnusedFolder(s, cfg, unused_files) ==
    CHOOSE r \in {(
        LET unused_files_count ==
                IF cfg.move_unused
                THEN Cardinality({p \in Range(unused_files) : Exists(st.files, p)})
                ELSE 0
        IN IF cfg.move_unused /\ unused_files_count > 0
           THEN [st EXCEPT !.dirs = st.dirs \cup {UNUSED}]
           ELSE st
        ) : st \in {s}} : TRUE

\* Step 1 and step 2, each under its flag (file_manager.py 146, 290)
MoveFiles(s, cfg, linked_files, unused_files) ==
    CHOOSE r \in {(
        IF cfg.move_unused /\ UNUSED \in st.dirs
        THEN MoveUnused(st, cfg, unused_files)
        ELSE st
        ) : st \in {IF cfg.create_maps_folder
                    THEN CollectLinked(s, cfg, linked_files)
                    ELSE s}} : TRUE

\* CleanUp with a slip: the unused folder is not looked at after step 2
CleanUpKeepUnused(s, cfg) ==
    CHOOSE r \in {(
        [st EXCEPT !.dirs = _remove_empty_folders(st.files, st.dirs, cfg.scenes)]
        ) : st \in {s}} : TRUE

\* The unused folder is removed if it stayed empty, then the empty folders
\* outside maps and unused are removed (file_manager.py 320-348)
CleanUp(s, cfg) ==
    CHOOSE r \in {(
        [st EXCEPT !.dirs = _remove_empty_folders(st.files, st.dirs, cfg.scenes)]
        ) : st \in {CHOOSE q \in {(
                        IF cfg.move_unused /\ UNUSED \in st4.dirs
                                           /\ DirEmpty(st4.files, st4.dirs, cfg.scenes, UNUSED)
                        THEN [st4 EXCEPT !.dirs = st4.dirs \ {UNUSED}]
                        ELSE st4
                        ) : st4 \in {s}} : TRUE}} : TRUE

\* organize_assets.  pre: the state it starts in; linked_files, unused_files:
\* the two sets of the analysis in the order they are iterated
organize_assets(pre, cfg, linked_files, unused_files) ==
    CleanUp(MoveFiles(CreateUnusedFolder(StartRun(pre, cfg), cfg, unused_files),
                      cfg, linked_files, unused_files),
            cfg)

\* undo_last_operation: [ret, files, dirs, ops]
undo_last_operation(fs, ds, ops, md, store, sd) ==
    LET unchanged == [ret |-> FALSE, files |-> fs, dirs |-> ds, ops |-> ops]
    IN IF ~can_undo(ops) THEN unchanged
       ELSE LET last_op == ops[Len(ops)]
                restore_op == Operation("restore", last_op.source, last_op.destination,
                                        TRUE, "", last_op.backup_id, last_op.base_folder,
                                        last_op.content, FALSE)
                done(fs1) == [ret |-> TRUE, files |-> fs1, dirs |-> ds,
                              ops |-> add_operation(ops, restore_op)]
            IN CASE last_op.type = "move" ->
                      IF Exists(fs, last_op.destination)
                      THEN IF DirExists(ds, last_op.source[1])
                           THEN done(Put(Remove(fs, last_op.destination), last_op.source,
                                         fs[last_op.destination]))
                           ELSE unchanged      \* shutil.move raises
                      ELSE done(fs)
                 [] last_op.type = "copy" ->
                      IF Exists(fs, last_op.destination)
                      THEN done(Remove(fs, last_op.destination))
                      ELSE done(fs)
                 [] last_op.type = "delete" ->
                      IF last_op.backup_id # NoRun /\ md.has
                      THEN LET r == restore_backup(md.m, store, sd, fs, ds, last_op.backup_id, {})
                           IN [ret |-> r.ok, files |-> r.files, dirs |-> r.dirs, ops |-> ops]
                      ELSE done(fs)
                 [] OTHER -> done(fs)


\* ------------------------------------------------------------ MaxFileParser
\* A path with its name kept as written: the folder, the stem, the extension,
\* and the separator it is written with. LIB is a folder outside the project.
LIB == "lib"

Ref(d, s, e) == [dir |-> d, stem |-> s, ext |-> e, sep |-> "\\"]

\* The same path written with forward slashes
Slashed(r) == [r EXCEPT !.sep = "/"]

\* str.lower() on the strings that occur
Lower(s) ==
    CASE s = "Tex" -> "tex"
      [] s = ".PNG" -> ".png"
      [] s = ".MAX" -> ".max"
      [] OTHER -> s

\* Path(p).name.lower()
NameLower(f) == <<[i \in DOMAIN f.stem |-> Lower(f.stem[i])], Lower(f.ext)>>

\* Path(p).name
NameExact(f) == <<f.stem, f.ext>>

TEXTURE_EXTENSIONS == {".png"}

PROXY_EXTENSIONS == {".vrmesh"}

OTHER_EXTENSIONS == {".ies"}

ALL_EXTENSIONS == TEXTURE_EXTENSIONS \cup PROXY_EXTENSIONS \cup OTHER_EXTENSIONS

\* SceneAssets as parse_scene starts it
EmptyAssets == [textures |-> {}, proxies |-> {}, other_assets |-> {}, errors |-> <<>>]

_is_valid_path(r) == Lower(r.ext) \in ALL_EXTENSIONS

\* _classify_path over every path found
ClassifyAll(assets, found) ==
    [assets EXCEPT
        !.textures = @ \cup {r \in found : Lower(r.ext) \in TEXTURE_EXTENSIONS},
        !.proxies = @ \cup {r \in found : Lower(r.ext) \in PROXY_EXTENSIONS},
        !.other_assets = @ \cup {r \in found : Lower(r.ext) \in OTHER_EXTENSIONS}]

\* The loop over ole.listdir(): the data of the streams that can be read; a
\* stream whose read raises is passed over.
RECURSIVE ReadStreams(_, _)
ReadStreams(streams, all_data) ==
    IF streams = <<>> THEN all_data
    ELSE ReadStreams(Tail(streams),
                     IF Head(streams).readable THEN all_data \cup Head(streams).refs
                     ELSE all_data)

_extract_from_ole(doc, assets) ==
    ClassifyAll(assets, {r \in ReadStreams(doc.streams, {}) : _is_valid_path(r)})

\* clean_set: every path written with backslashes; equal strings fall together
clean_set(paths) == {[p EXCEPT !.sep = "\\"] : p \in paths}

_clean_paths(assets) ==
    [assets EXCEPT !.textures = clean_set(@),
                   !.proxies = clean_set(@),
                   !.other_assets = clean_set(@)]

parse_scene(doc) ==
    IF ~doc.exists THEN [EmptyAssets EXCEPT !.errors = Append(@, "not_found")]
    ELSE IF Lower(doc.suffix) # ".max" THEN [EmptyAssets EXCEPT !.errors = Append(@, "wrong_format")]
    ELSE IF doc.container = "not_ole" THEN [EmptyAssets EXCEPT !.errors = Append(@, "not_ole")]
    ELSE IF doc.container = "raises"
         THEN _clean_paths([EmptyAssets EXCEPT !.errors = Append(@, "parse_error")])
    ELSE _clean_paths(_extract_from_ole(doc, EmptyAssets))

\* ------------------------------------------------------------ AssetAnalyzer
\* Path(p).exists(): a file of the tree at that place, or one of the files
\* outside the project; the file system does not tell names by case.
LiteralExists(tr, out, r) ==
    \/ [dir |-> r.dir, name |-> NameLower(r)] \in out
    \/ \E f \in tr : f.dir = r.dir /\ NameLower(f) = NameLower(r)

_scan_folder_deep(tr) ==
    {f \in tr : /\ f.dir # UNUSED
                /\ DirName(f.dir) # UNUSED
                /\ Lower(f.ext) \in ALL_EXTENSIONS}

\* _compare_assets comparing the names as written
_compare_assets_exact(all_files_info, all_used_assets, tr, out) ==
    [linked_files |-> {f \in all_files_info : NameExact(f) \in {NameExact(r) : r \in all_used_assets}},
     unused_files |-> {f \in all_files_info : NameExact(f) \notin {NameExact(r) : r \in all_used_assets}},
     is_used |-> [f \in all_files_info |-> NameExact(f) \in {NameExact(r) : r \in all_used_assets}],
     missing_files |-> {r \in all_used_assets :
                           /\ NameLower(r) \notin {NameLower(f) : f \in all_files_info}
                           /\ ~LiteralExists(tr, out, r)}]

\* _compare_assets without the look at the literal path
_compare_assets_by_name(all_files_info, all_used_assets, tr, out) ==
    [linked_files |-> {f \in all_files_info : NameLower(f) \in {NameLower(r) : r \in all_used_assets}},
     unused_files |-> {f \in all_files_info : NameLower(f) \notin {NameLower(r) : r \in all_used_assets}},
     is_used |-> [f \in all_files_info |-> NameLower(f) \in {NameLower(r) : r \in all_used_assets}],
     missing_files |-> {r \in all_used_assets :
                           NameLower(r) \notin {NameLower(f) : f \in all_files_info}}]

_compare_assets(all_files_info, all_used_assets, tr, out) ==
    [linked_files |-> {f \in all_files_info : NameLower(f) \in {NameLower(r) : r \in all_used_assets}},
     unused_files |-> {f \in all_files_info : NameLower(f) \notin {NameLower(r) : r \in all_used_assets}},
     is_used |-> [f \in all_files_info |-> NameLower(f) \in {NameLower(r) : r \in all_used_assets}],
     missing_files |-> {r \in all_used_assets :
                           /\ NameLower(r) \notin {NameLower(f) : f \in all_files_info}
                           /\ ~LiteralExists(tr, out, r)}]

\* AnalysisResult of a folder that holds no scene
NoScenes ==
    [scanned |-> FALSE, all_used_assets |-> {}, all_files_info |-> {},
     linked_files |-> {}, unused_files |-> {}, is_used |-> <<>>,
     missing_files |-> {}, errors |-> <<"no_scenes">>]

\* The result once the scene is parsed and the folder scanned.
Compared(info, sa, tr, out) ==
    CHOOSE r \in {[scanned |-> TRUE,
                   all_used_assets |-> sa.textures \cup sa.proxies \cup sa.other_assets,
                   all_files_info |-> info,
                   linked_files |-> c.linked_files, unused_files |-> c.unused_files,
                   is_used |-> c.is_used, missing_files |-> c.missing_files,
                   errors |-> sa.errors] :
                  c \in {_compare_assets(info, sa.textures \cup sa.proxies \cup sa.other_assets, tr, out)}} : TRUE

\* analyze_folder of a folder with at most one scene document; glob('*.max')
\* finds it whatever the case of its suffix.
analyze_folder(tr, doc, out) ==
    IF ~(doc.exists /\ Lower(doc.suffix) = ".max") THEN NoScenes
    ELSE Compared(_scan_folder_deep(tr), parse_scene(doc), tr, out)

\* ---------------------------------------------------------- the analysis
\* The files of the organizer as the analyzer sees them
FileRecord(p) == Ref(p[1], p[2], ".png")

\* _scan_folder_deep and _compare_assets, as far as organize_assets reads them:
\* the supported files outside unused, linked when their name is referenced
AnalysisOf(fs) ==
    CHOOSE a \in {[valid |-> TRUE,
                   linked |-> {p \in DOMAIN fs : FileRecord(p) \in c.linked_files},
                   unused |-> {p \in DOMAIN fs : FileRecord(p) \in c.unused_files}] :
                  c \in {_compare_assets(_scan_folder_deep({FileRecord(p) : p \in DOMAIN fs}),
                                         {Ref(LIB, n, ".png") : n \in RefNames}, {}, {})}} : TRUE

NoAnalysis == [valid |-> FALSE, linked |-> {}, unused |-> {}]

\* ------------------------------------------------------------ the calls
NoResult == [operations |-> <<>>, files_moved |-> 0, duplicates_deleted |-> 0,
             files_skipped |-> 0, backup_id |-> NoRun]

\* The record of the most recent call: its name, arguments and result.
NoCall ==
    [name |-> "init", ret |-> FALSE,
     create_maps_folder |-> FALSE, move_unused |-> FALSE,
     copy_instead_of_move |-> FALSE, delete_duplicates |-> FALSE,
     denied |-> {}, run |-> NoRun, result |-> NoResult,
     backups_to_delete |-> {}]

Call(name) == [NoCall EXCEPT !.name = name]

\* No scene document in the folder
NoDoc == [exists |-> FALSE, suffix |-> ".max", container |-> "ole", streams |-> <<>>]

\* The paths one stream of a scene document may hold
StreamRefs ==
    {{},
     {Ref(LIB, <<"Tex">>, ".PNG"), Ref(LIB, <<"tex">>, ".txt")},
     {Slashed(Ref(LIB, <<"tex">>, ".png")), Ref(LIB, <<"brick">>, ".png")},
     {Ref(UNUSED, <<"brick">>, ".png"), Ref(LIB, <<"tex">>, ".vrmesh")}}

\* The scene documents: absent, not a scene, not a container, one whose
\* opening raises, and containers of up to MaxStreams streams, each readable or not.
Docs ==
    {NoDoc,
     [NoDoc EXCEPT !.exists = TRUE, !.suffix = ".txt"],
     [NoDoc EXCEPT !.exists = TRUE, !.container = "not_ole"],
     [NoDoc EXCEPT !.exists = TRUE, !.container = "raises"],
     [NoDoc EXCEPT !.exists = TRUE, !.suffix = ".MAX",
                   !.streams = <<[readable |-> TRUE, refs |-> {Ref(LIB, <<"Tex">>, ".PNG")}]>>]}
    \cup {[NoDoc EXCEPT !.exists = TRUE, !.streams = ss] :
             ss \in UNION {[1..n -> [readable : BOOLEAN, refs : StreamRefs]] : n \in 0..MaxStreams}}

\* The files the analyzed folder may hold
TreeFiles ==
    {Ref("subA", <<"tex">>, ".png"), Ref("subA", <<"Tex">>, ".PNG"),
     Ref("subA", <<"tex">>, ".txt"), Ref(UNUSED, <<"tex">>, ".png"),
     Ref(UNUSED, <<"brick">>, ".png"), Ref(SUB_UNUSED, <<"tex">>, ".png"),
     Ref(ROOT, <<"noise">>, ".png")}

\* A folder holds no two files whose names differ by case alone.
AnalysisTrees ==
    {t \in SUBSET TreeFiles :
        /\ Cardinality(t) <= MaxTree
        /\ \A f, g \in t : (f.dir = g.dir /\ NameLower(f) = NameLower(g)) => f = g}

\* The referenced files that may exist outside the project
OutsideFiles ==
    {[dir |-> LIB, name |-> <<<<"tex">>, ".png">>], [dir |-> LIB, name |-> <<<<"brick">>, ".png">>]}

\* The trees the project may start as: the referenced files vary in content.
InitTrees ==
    {t \in UNION {[S -> Contents] : S \in {T \in SUBSET InitPaths : Cardinality(T) <= MaxFiles}} :
        \A p \in DOMAIN t : p[2] \notin RefNames => t[p] = [fp |-> 1, body |-> 1]}

Init ==
    /\ files \in InitTrees
    /\ scenes \in {{ROOT}, {"subA"}}
    /\ dirs = UNION {WithParents(p[1]) : p \in DOMAIN files} \cup (scenes \ {ROOT})
    /\ analysis = NoAnalysis
    /\ operations = <<>>
    /\ historyFile = <<>>
    /\ enable_backup \in BOOLEAN
    /\ metadata = NoMetadata
    /\ metaDisk = [s \in Seeds |-> <<>>]
    /\ bstore = <<>>
    /\ seed = 1
    /\ expired = {}
    /\ nextRun = 0
    /\ last = NoCall
    /\ tree = {}
    /\ scene_doc = NoDoc
    /\ outside = {}
    /\ parsed = <<>>
    /\ report = <<>>
    /\ instances = <<>>

\* AssetAnalyzer.analyze_folder on the project root
Analyze ==
    /\ analysis' = AnalysisOf(files)
    /\ analysis' # analysis
    /\ nextRun < MaxRuns
    /\ last' = NoCall
    /\ UNCHANGED <<files, dirs, scenes, operations, historyFile, enable_backup,
                   metadata, metaDisk, bstore, seed, expired, nextRun>>
    /\ UNCHANGED avars
    /\ UNCHANGED hvars

\* FileManager.organize_assets(analysis, ...) ; dn: the sources the operating
\* system refuses to move, copy or delete during this run
Organize(create_maps, mv_unused, copy_mode, del_dups, linked_files, unused_files, dn) ==
    LET run == IF enable_backup THEN nextRun + 1 ELSE NoRun
        cfg == [enable_backup |-> enable_backup, backup_id |-> run, seed |-> seed,
                scenes |-> scenes, disk |-> metaDisk, expired |-> expired,
                create_maps_folder |-> create_maps, move_unused |-> mv_unused,
                copy_instead_of_move |-> copy_mode, delete_duplicates |-> del_dups,
                denied |-> dn]
        pre == [files |-> files, dirs |-> dirs, ops |-> operations,
                meta |-> metadata.m, has_bm |-> metadata.has, store |-> bstore,
                res |-> <<>>, moved |-> 0, deleted |-> 0, skipped |-> 0]
    IN \E st \in {organize_assets(pre, cfg, linked_files, unused_files)} :
       /\ files' = st.files
       /\ dirs' = st.dirs
       /\ operations' = st.ops
       /\ historyFile' = IF st.ops # operations THEN st.ops ELSE historyFile
       /\ metadata' = [has |-> st.has_bm, m |-> st.meta]
       /\ metaDisk' = IF enable_backup THEN [metaDisk EXCEPT ![seed] = st.meta] ELSE metaDisk
       /\ bstore' = st.store
       /\ nextRun' = nextRun + 1
       /\ last' = [Call("organize") EXCEPT
                       !.ret = TRUE,
                       !.create_maps_folder = create_maps, !.move_unused = mv_unused,
                       !.copy_instead_of_move = copy_mode,
                       !.delete_duplicates = del_dups,
                       !.denied = dn, !.run = run,
                       !.result = [operations |-> st.res, files_moved |-> st.moved,
                                   duplicates_deleted |-> st.deleted,
                                   files_skipped |-> st.skipped, backup_id |-> run]]
       /\ UNCHANGED <<scenes, analysis, enable_backup, seed, expired>>
       /\ UNCHANGED avars
       /\ UNCHANGED hvars

OrganizeCall(faults) ==
    /\ analysis.valid
    /\ nextRun < MaxRuns
    /\ \E create_maps, mv_unused, copy_mode, del_dups \in BOOLEAN :
       \E linked_files \in Orders(analysis.linked) :
       \E unused_files \in Orders(analysis.unused) :
       \E dn \in faults :
          Organize(create_maps, mv_unused, copy_mode, del_dups, linked_files, unused_files, dn)

\* every filesystem call of the run succeeds
OrganizeAssets == OrganizeCall({{}})

\* the operating system refuses the calls on some of the files
OrganizeAssetsFaulty ==
    OrganizeCall(SUBSET (analysis.linked \cup analysis.unused) \ {{}})

\* FileManager.undo_last_operation()
UndoLast ==
    \E r \in {undo_last_operation(files, dirs, operations, metadata, bstore, seed)} :
       /\ operations # <<>>
       /\ files' = r.files
       /\ dirs' = r.dirs
       /\ operations' = r.ops
       /\ historyFile' = IF r.ops # operations THEN r.ops ELSE historyFile
       /\ last' = [Call("undo") EXCEPT !.ret = r.ret]
       /\ UNCHANGED <<scenes, analysis, enable_backup, metadata, metaDisk, bstore, seed,
                      expired, nextRun>>
       /\ UNCHANGED avars
       /\ UNCHANGED hvars

\* FileManager.restore_folder(base_folder, backup_id): the spec's restore_run;
\* dn: the original paths to which the operating system refuses to copy
Restore(run, dn) ==
    \E md \in {IF metadata.has THEN metadata ELSE BackupManagerInit(metaDisk, seed)} :
    \E r \in {restore_backup(md.m, bstore, seed, files, dirs, run, dn)} :
       /\ files' = r.files
       /\ dirs' = r.dirs
       /\ metadata' = md
       /\ last' = [Call("restore") EXCEPT !.ret = r.ok, !.run = run, !.denied = dn]
       /\ UNCHANGED <<scenes, analysis, operations, historyFile, enable_backup,
                      metaDisk, bstore, seed, expired, nextRun>>
       /\ UNCHANGED avars
       /\ UNCHANGED hvars

\* every copy of the restore succeeds
RestoreFolder == \E run \in 1..nextRun : Restore(run, {})

\* the operating system refuses to copy some of the run's files back
RestoreFolderFaulty ==
    \E run \in 1..nextRun :
    \E dn \in SUBSET {k[3] : k \in {x \in DOMAIN bstore : x[2] = run}} \ {{}} :
       Restore(run, dn)

\* The process ends and a new one constructs a FileManager: OperationHistory
\* loads the log file, backup_manager is None, and the interpreter draws the
\* seed of hash(str) anew.
Restart ==
    /\ nextRun > 0
    /\ seed' \in Seeds
    /\ operations' = historyFile
    /\ metadata' = NoMetadata
    /\ analysis' = NoAnalysis
    /\ last' = NoCall
    /\ UNCHANGED <<files, dirs, scenes, historyFile, enable_backup, metaDisk, bstore,
                   expired, nextRun>>
    /\ UNCHANGED avars
    /\ UNCHANGED hvars

\* Time passes: every run recorded so far becomes older than retention_days.
Age ==
    /\ \E sd \in Seeds : DOMAIN metaDisk[sd] \ expired # {}
    /\ expired' = expired \cup UNION {DOMAIN metaDisk[sd] : sd \in Seeds}
    /\ last' = NoCall
    /\ UNCHANGED <<files, dirs, scenes, analysis, operations, historyFile, enable_backup,
                   metadata, metaDisk, bstore, seed, nextRun>>
    /\ UNCHANGED avars
    /\ UNCHANGED hvars

\* --------------------------------------------------- the purge alone
\* The files an earlier run may have backed up, in the order it met them
BackedUp == {<<<<"subA", <<"tex">>>>>>, <<<<"subA", <<"tex">>>>, <<"subB", <<"noise">>>>>>}

\* The backup metadata the process of seed sd finds: to every run made under
\* that seed its entries. by: the seed of each run, 0 for a run never made.
MetadataOf(by, backed, sd) ==
    [run \in {r \in DOMAIN by : by[r] = sd} |->
        [i \in DOMAIN backed[run] |->
            [original |-> backed[run][i], backup |-> <<sd, run, backed[run][i]>>]]]

\* The backup files of those runs
StoreOf(by, backed) ==
    [k \in UNION {{<<by[r], r, backed[r][i]>> : i \in DOMAIN backed[r]} :
                     r \in {x \in DOMAIN by : by[x] # 0}}
        |-> [fp |-> 1, body |-> 1]]

\* A project organized up to MaxBackups times before, by processes of any
\* seed; some of the runs are older than retention_days.
InitPurge ==
    /\ files = <<>>
    /\ scenes = {ROOT}
    /\ dirs = {}
    /\ analysis = NoAnalysis
    /\ operations = <<>>
    /\ historyFile = <<>>
    /\ enable_backup = TRUE
    /\ metadata = NoMetadata
    /\ seed \in Seeds
    /\ \E by \in [1..MaxBackups -> Seeds \cup {0}] :
       \E backed \in [1..MaxBackups -> BackedUp] :
          /\ \A r \in 1..MaxBackups : by[r] = 0 => backed[r] = <<<<"subA", <<"tex">>>>>>
          /\ metaDisk = [sd \in Seeds |-> MetadataOf(by, backed, sd)]
          /\ bstore = StoreOf(by, backed)
          /\ nextRun = Cardinality({r \in 1..MaxBackups : by[r] # 0})
          /\ expired \in SUBSET {r \in 1..MaxBackups : by[r] # 0}
    /\ last = NoCall
    /\ tree = {}
    /\ scene_doc = NoDoc
    /\ outside = {}
    /\ parsed = <<>>
    /\ report = <<>>
    /\ instances = <<>>

\* BackupManager.cleanup_old_backups() of the project's backup manager, made
\* first where the process has none
CleanupOldBackups ==
    \E md \in {IF metadata.has THEN metadata ELSE BackupManagerInit(metaDisk, seed)} :
    \E r \in {cleanup_old_backups([meta |-> md.m, store |-> bstore], seed, expired)} :
       /\ metadata' = [has |-> TRUE, m |-> r.meta]
       /\ metaDisk' = IF r.meta # md.m THEN [metaDisk EXCEPT ![seed] = r.meta] ELSE metaDisk
       /\ bstore' = r.store
       /\ last' = [Call("cleanup") EXCEPT !.backups_to_delete = DOMAIN md.m \cap expired]
       /\ UNCHANGED <<files, dirs, scenes, analysis, operations, historyFile, enable_backup,
                      seed, expired, nextRun>>
       /\ UNCHANGED avars
       /\ UNCHANGED hvars

NextPurge ==
    \/ CleanupOldBackups
    \/ Age
    \/ Restart

SpecPurge == InitPurge /\ [][NextPurge]_vars

\* ------------------------------------------- the shared operation log
\* Each FileManager makes an OperationHistory of its own (file_manager.py 65)
\* and the restore menu works on the one it is given; all of them load and
\* save the same file.
InitShared ==
    /\ files = <<>>
    /\ scenes = {ROOT}
    /\ dirs = {}
    /\ analysis = NoAnalysis
    /\ operations = <<>>
    /\ historyFile = <<>>
    /\ enable_backup = TRUE
    /\ metadata = NoMetadata
    /\ metaDisk = [s \in Seeds |-> <<>>]
    /\ bstore = <<>>
    /\ seed = 1
    /\ expired = {}
    /\ nextRun = 0
    /\ last = NoCall
    /\ tree = {}
    /\ scene_doc = NoDoc
    /\ outside = {}
    /\ parsed = <<>>
    /\ report = <<>>
    /\ instances = <<>>

\* OperationHistory(): the object loads the log file
NewInstance ==
    /\ Len(instances) < MaxInstances
    /\ instances' = Append(instances, historyFile)
    /\ last' = Call("OperationHistory")
    /\ UNCHANGED <<files, dirs, scenes, analysis, operations, historyFile, enable_backup,
                   metadata, metaDisk, bstore, seed, expired, nextRun>>
    /\ UNCHANGED avars

\* add_operation through one of the objects: the entry of a move made by a new run
AddOperation ==
    \E i \in DOMAIN instances :
    /\ nextRun < MaxAppends
    /\ \E ops \in {add_operation(instances[i],
                        Operation("move", <<"subA", <<"tex">>>>, <<MAPS, <<"tex">>>>, TRUE, "",
                                  nextRun + 1, ROOT, [fp |-> 1, body |-> 1], FALSE))} :
          /\ instances' = [instances EXCEPT ![i] = ops]
          /\ historyFile' = ops
    /\ nextRun' = nextRun + 1
    /\ last' = [Call("add_operation") EXCEPT !.run = nextRun + 1]
    /\ UNCHANGED <<files, dirs, scenes, analysis, operations, enable_backup,
                   metadata, metaDisk, bstore, seed, expired>>
    /\ UNCHANGED avars

\* RestoreMenuWidget.delete_selected_folder on one of the objects for a run
\* backup_id that the object lists
DeleteSelectedFolder ==
    \E i \in DOMAIN instances : \E backup_id \in 1..nextRun :
    /\ get_operations_by_backup_id(instances[i], backup_id) # <<>>
    /\ \E ops \in {remove_operations(instances[i], backup_id)} :
          /\ instances' = [instances EXCEPT ![i] = ops]
          /\ historyFile' = ops
    /\ \E md \in {BackupManagerInit(metaDisk, seed).m} :
       \E r \in {delete_backup([meta |-> md, store |-> bstore], seed, backup_id)} :
          /\ metaDisk' = IF backup_id \in DOMAIN md
                         THEN [metaDisk EXCEPT ![seed] = r.meta] ELSE metaDisk
          /\ bstore' = r.store
    /\ last' = [Call("delete_selected_folder") EXCEPT !.run = backup_id]
    /\ UNCHANGED <<files, dirs, scenes, analysis, operations, enable_backup,
                   metadata, seed, expired, nextRun>>
    /\ UNCHANGED avars

NextShared ==
    \/ NewInstance
    \/ AddOperation
    \/ DeleteSelectedFolder

SpecShared == InitShared /\ [][NextShared]_vars

\* ------------------------------------------------- the analyzer alone
\* An analysis of a folder not yet organized: the organizer stays idle.
InitAnalysis ==
    /\ files = <<>>
    /\ scenes = {ROOT}
    /\ dirs = {}
    /\ analysis = NoAnalysis
    /\ operations = <<>>
    /\ historyFile = <<>>
    /\ enable_backup = FALSE
    /\ metadata = NoMetadata
    /\ metaDisk = [s \in Seeds |-> <<>>]
    /\ bstore = <<>>
    /\ seed = 1
    /\ expired = {}
    /\ nextRun = 0
    /\ last = NoCall
    /\ tree \in AnalysisTrees
    /\ scene_doc \in Docs
    /\ outside \in SUBSET OutsideFiles
    /\ parsed = <<>>
    /\ report = <<>>
    /\ instances = <<>>

\* MaxFileParser.parse_scene on the scene document
ParseScene ==
    /\ parsed = <<>>
    /\ parsed' = <<parse_scene(scene_doc)>>
    /\ UNCHANGED <<tree, scene_doc, outside, report>>
    /\ UNCHANGED fvars
    /\ UNCHANGED hvars

\* AssetAnalyzer.analyze_folder on the folder
AnalyzeFolder ==
    /\ report = <<>>
    /\ instances = <<>>
    /\ report' = <<analyze_folder(tree, scene_doc, outside)>>
    /\ UNCHANGED <<tree, scene_doc, outside, parsed>>
    /\ UNCHANGED fvars
    /\ UNCHANGED hvars

NextAnalysis ==
    \/ ParseScene
    \/ AnalyzeFolder

SpecAnalysis == InitAnalysis /\ [][NextAnalysis]_vars

Next ==
    \/ Analyze
    \/ OrganizeAssets
    \/ UndoLast
    \/ RestoreFolder
    \/ Restart
    \/ Age

Spec == Init /\ [][Next]_vars

\* Organize runs and undo_last calls on a filesystem that may refuse calls.
NextFaulty ==
    \/ Analyze
    \/ OrganizeAssets
    \/ OrganizeAssetsFaulty
    \/ UndoLast
    \/ RestoreFolderFaulty

SpecFaulty == Init /\ [][NextFaulty]_vars


\* ================================================================ claims
\* The entry undo_last_operation works on.
LastOp == operations[Len(operations)]

UndoStep == last'.name = "undo" /\ operations # <<>>

\* C1 (as claimed): whenever the most recent log entry is a successful MOVE,
\* undo_last returns true, the file is back at its source path with the content
\* it had before the move, and it is gone from the destination.
C1_UndoMoveRestoresSource ==
    [][(UndoStep /\ LastOp.type = "move" /\ LastOp.success)
         => /\ last'.ret
            /\ Exists(files', LastOp.source)
            /\ files'[LastOp.source] = LastOp.content
            /\ ~Exists(files', LastOp.destination)]_vars

\* C2 (as claimed): with backup enabled, whenever the most recent log entry is
\* the successful DELETE of a duplicate, undo_last returns true and the file is
\* again at its original path with the content it had before the deletion.
C2_UndoDeleteRestoresFile ==
    [][(UndoStep /\ enable_backup /\ LastOp.type = "delete" /\ LastOp.success
          /\ LastOp.backup_id # NoRun)
         => /\ last'.ret
            /\ Exists(files', LastOp.source)
            /\ files'[LastOp.source] = LastOp.content]_vars

\* C3 (as claimed): every undo_last call that undoes an operation (a MOVE, a
\* COPY or a DELETE) appends exactly one RESTORE entry to the operation log.
C3_UndoAppendsRestore ==
    [][(UndoStep /\ last'.ret)
         => /\ Len(operations') = Len(operations) + 1
            /\ IsPrefix(operations, operations')
            /\ operations'[Len(operations')].type = "restore"]_vars


C5_RestoreRoundTrip ==
    [][last'.name = "restore"
         => \A k \in DOMAIN bstore :
               k[2] = last'.run
               => Exists(files', k[3]) /\ files'[k[3]] = bstore[k]]_vars

\* C6 (as claimed): a BackupManager constructed for the project root finds
\* every run recorded on disk for it, whichever process recorded the run.
C6_MetadataDurable ==
    metadata.has
    => \A sd \in Seeds : \A run \in DOMAIN metaDisk[sd] : run \in DOMAIN metadata.m

\* C7: across organize runs and undo_last calls the operation log only grows:
\* every entry, in memory and in the log file, stays unchanged at its position.
C7_LogOnlyGrows ==
    [][IsPrefix(operations, operations') /\ IsPrefix(historyFile, historyFile')]_vars

\* C7 witness: an undo has been recorded as a new RESTORE entry after the
\* entry it corrects.
C7_Witness ==
    /\ Len(operations) >= 2
    /\ operations[Len(operations)].type = "restore"
    /\ operations[Len(operations) - 1].type \in {"move", "copy", "delete"}
    /\ historyFile = operations

\* The files organize_assets has to move, copy or delete: the existing linked
\* files outside maps and the existing unused files outside unused.
ToProcess(fs, an, create_maps, mv_unused) ==
    (IF create_maps THEN {p \in an.linked : Exists(fs, p) /\ p[1] # MAPS} ELSE {})
    \cup (IF mv_unused THEN {p \in an.unused : Exists(fs, p) /\ p[1] # UNUSED} ELSE {})

\* C8: when the move, copy or delete of a file fails during organize_assets,
\* the failure is recorded as a FileOperation with success = false and an
\* error message for that file, every other file to process still has its
\* FileOperation, which succeeds unless the call on it fails too, and the
\* result is returned.
C8_FailureIsolated ==
    [][last'.name = "organize"
         => LET res == last'.result.operations
                todo == ToProcess(files, analysis, last'.create_maps_folder,
                                  last'.move_unused)
            IN /\ last'.ret
               /\ \A p \in todo : \E i \in DOMAIN res : res[i].source = p
               /\ \A i \in DOMAIN res :
                     /\ res[i].source \in todo
                     /\ res[i].source \in last'.denied
                           => ~res[i].success /\ res[i].error # ""
                     /\ res[i].source \notin last'.denied
                           => res[i].success /\ res[i].error = ""]_vars

\* C8 witness: a run in which an operation failed and a later one succeeded.
C8_Witness ==
    /\ last.name = "organize"
    /\ \E i, j \in DOMAIN last.result.operations :
          /\ i < j
          /\ ~last.result.operations[i].success
          /\ last.result.operations[i].error # ""
          /\ last.result.operations[j].success


\* A linked file in maps and an equally named linked file elsewhere with
\* identical content, both on disk.
CanonicalAndCopy(m, o) ==
    /\ m \in analysis.linked /\ o \in analysis.linked
    /\ Exists(files, m) /\ Exists(files, o)
    /\ m[1] = MAPS /\ o[1] # MAPS /\ m[2] = o[2]
    /\ files[m] = files[o]

DedupDone(m, o) ==
    /\ ~Exists(files', o)
    /\ Exists(files', m) /\ files'[m] = files[m]

\* C9 (as claimed): organize_assets with delete-duplicates enabled deletes the
\* non-canonical instance and leaves the canonical one unchanged.
C9_DedupDeletesCopy ==
    [][(last'.name = "organize" /\ last'.delete_duplicates)
         => \A m, o \in analysis.linked : CanonicalAndCopy(m, o) => DedupDone(m, o)]_vars

\* C9 (amended): the same, when linked files are consolidated
\* (create_maps_folder) and delete-duplicates is enabled.
C9_DedupWhenConsolidating ==
    [][(last'.name = "organize" /\ last'.delete_duplicates /\ last'.create_maps_folder)
         => \A m, o \in analysis.linked : CanonicalAndCopy(m, o) => DedupDone(m, o)]_vars

\* C9 witness: a run deleted a duplicate and moved nothing to the duplicate's
\* name in maps, where the canonical instance still is.
C9_Witness ==
    /\ last.name = "organize" /\ last.delete_duplicates /\ last.create_maps_folder
    /\ \E i \in DOMAIN last.result.operations :
          LET op == last.result.operations[i]
          IN /\ op.action = "deleted_duplicate" /\ op.success
             /\ ~Exists(files, op.source)
             /\ Exists(files, <<MAPS, op.source[2]>>)
             /\ \A j \in DOMAIN last.result.operations :
                   last.result.operations[j].destination # <<MAPS, op.source[2]>>

\* Content c is in maps under the name nm, or under nm with a numeric suffix.
InMapsAs(fs, nm, c) ==
    \E p \in DOMAIN fs :
       /\ p[1] = MAPS /\ fs[p] = c
       /\ \/ p[2] = nm
          \/ Len(p[2]) = Len(nm) + 1 /\ SubSeq(p[2], 1, Len(nm)) = nm
             /\ \E n \in 1..(MaxFiles * MaxRuns + MaxFiles) : p[2][Len(p[2])] = ToString(n)

\* No path that exists before and after the step has changed its content.
NothingOverwritten == \A p \in DOMAIN files \cap DOMAIN files' : files'[p] = files[p]

NoFailure == \A i \in DOMAIN last'.result.operations : last'.result.operations[i].success

\* The member of a group of equally named linked files that organize_assets
\* keeps under the original name, as the result shows it: the one in maps, or
\* else the one it moved or copied without renaming.
Promoted(p) ==
    \/ p[1] = MAPS
    \/ \E i \in DOMAIN last'.result.operations :
          LET op == last'.result.operations[i]
          IN /\ op.source = p
             /\ op.action # "deleted_duplicate"
             /\ ~(Len(op.destination[2]) > Len(p[2])
                    /\ op.destination[2][Len(p[2]) + 1] = ParentName(p))

\* C10 (as claimed): two linked files with one basename and different content
\* are never overwritten by each other and, if no filesystem call fails, both
\* contents are in maps afterwards, one under the original name and the other
\* under stem_<source folder>.
C10_BothSurvive ==
    [][last'.name = "organize"
         => \A a, b \in analysis.linked :
               (Exists(files, a) /\ Exists(files, b) /\ a # b /\ a[2] = b[2]
                  /\ files[a] # files[b])
               => /\ NothingOverwritten
                  /\ NoFailure =>
                       \E x \in {a, b} : \E y \in {a, b} \ {x} :
                          /\ Exists(files', <<MAPS, x[2]>>)
                          /\ files'[<<MAPS, x[2]>>] = files[x]
                          /\ Exists(files', <<MAPS, Append(y[2], ParentName(y))>>)
                          /\ files'[<<MAPS, Append(y[2], ParentName(y))>>] = files[y]]_vars

\* C10 (amended): when linked files are consolidated from an analysis of the
\* folder as it is, a linked file and the promoted file of its basename that
\* differ in quick fingerprint are never overwritten and, if no filesystem call
\* fails, both contents are in maps afterwards: the promoted one under the
\* original name, the other under stem_<source folder>, each with a numeric
\* suffix when that name was taken.
C10_BothSurviveByFingerprint ==
    [][(last'.name = "organize" /\ last'.create_maps_folder
          /\ analysis = AnalysisOf(files))
         => \A a, b \in analysis.linked :
               (Exists(files, a) /\ Exists(files, b) /\ a # b /\ a[2] = b[2]
                  /\ files[a].fp # files[b].fp /\ Promoted(a))
               => /\ NothingOverwritten
                  /\ NoFailure =>
                       /\ InMapsAs(files', a[2], files[a])
                       /\ InMapsAs(files', Append(b[2], ParentName(b)), files[b])]_vars

\* C10 witness: a run moved one file of a basename to maps under its name and
\* another one, of different content, under the renamed name.
C10_Witness ==
    /\ last.name = "organize" /\ last.create_maps_folder
    /\ \E i, j \in DOMAIN last.result.operations :
          LET x == last.result.operations[i]
              y == last.result.operations[j]
          IN /\ x.success /\ y.success /\ x.source[2] = y.source[2]
             /\ x.destination = <<MAPS, x.source[2]>>
             /\ y.destination = <<MAPS, Append(y.source[2], ParentName(y.source))>>
             /\ Exists(files, x.destination) /\ Exists(files, y.destination)
             /\ files[x.destination] # files[y.destination]

\* ---- C11
\* Whether path p exists when organize_assets makes the i-th filesystem call
\* of its result: p was there at the start and no earlier call moved or
\* deleted it, or an earlier call put a file there.
ExistsAt(i, p) ==
    LET ops == last'.result.operations
    IN \/ /\ Exists(files, p)
          /\ ~\E j \in 1..(i - 1) :
                ops[j].success /\ ops[j].source = p /\ ops[j].action # "copied"
       \/ \E j \in 1..(i - 1) :
             ops[j].success /\ ops[j].destination = p /\ ops[j].action # "deleted_duplicate"

\* The names a file may be given in its destination folder before a suffix.
ComputedNames(source) == {source[2], Append(source[2], ParentName(source))}

\* C11: a successful move or copy of organize_assets writes to a path that
\* does not exist at that moment: the computed destination if it is free, else
\* stem_N for the smallest N >= 1 that is free; and every file that is at its
\* path before and after the run has its content unchanged.
C11_NeverOverwrites ==
    [][last'.name = "organize"
         => /\ NothingOverwritten
            /\ \A i \in DOMAIN last'.result.operations :
                  LET op == last'.result.operations[i]
                  IN (op.success /\ op.action # "deleted_duplicate")
                     => /\ ~ExistsAt(i, op.destination)
                        /\ \E nm \in ComputedNames(op.source) :
                              LET dest == <<op.destination[1], nm>>
                              IN \/ op.destination = dest
                                 \/ /\ ExistsAt(i, dest)
                                    /\ \E N \in 1..(MaxFiles * MaxRuns + MaxFiles) :
                                          /\ op.destination[2] = Append(nm, ToString(N))
                                          /\ \A k \in 1..(N - 1) :
                                                ExistsAt(i, <<dest[1], Append(nm, ToString(k))>>)]_vars

\* C11 witness: a run placed a file under a suffixed name because the computed
\* destination was taken, and the file at the computed destination is still there.
C11_Witness ==
    /\ last.name = "organize"
    /\ \E i \in DOMAIN last.result.operations :
          LET op == last.result.operations[i]
          IN /\ op.success /\ op.action # "deleted_duplicate"
             /\ op.destination[2] = Append(op.source[2], "1")
             /\ Exists(files, op.destination)
             /\ Exists(files, <<op.destination[1], op.source[2]>>)

\* ---- C12
\* C12 (as claimed): when copy_instead_of_move is set, every file that
\* organize_assets relocated into maps or unused is still at its original path
\* after the run.
C12_CopyKeepsOriginals ==
    [][(last'.name = "organize" /\ last'.copy_instead_of_move)
         => \A i \in DOMAIN last'.result.operations :
               LET op == last'.result.operations[i]
               IN (op.success /\ op.action # "deleted_duplicate")
                  => Exists(files', op.source)]_vars

\* ---- C13
\* p lies in the directory subtree of a known scene document.
InSceneSubtree(p) ==
    \E d \in scenes : d = ROOT \/ p[1] = d \/ (p[1] # ROOT /\ DirParent(p[1]) = d)

C14_NoEmptyFolderRemains ==
    [][last'.name = "organize"
         => \A d \in dirs' \ {MAPS, UNUSED} : ~DirEmpty(files', dirs', scenes, d)]_vars

\* ---- C16
\* C16 (as claimed): during restore_run a failure to copy one entry back is
\* not fatal: every other entry of the run whose backup file exists is
\* restored to its original path.
C16_RestoreSkipsFailures ==
    [][(last'.name = "restore" /\ last'.run \in DOMAIN metadata'.m)
         => \A i \in DOMAIN metadata'.m[last'.run] :
               LET e == metadata'.m[last'.run][i]
               IN (e.original \notin last'.denied /\ e.backup \in DOMAIN bstore)
                  => /\ Exists(files', e.original)
                     /\ files'[e.original] = bstore[e.backup]]_vars

\* ---- C15
\* C15: after organize_assets with move_unused set, the unused folder does
\* not exist empty; and the run creates it only when at least one unused file
\* of the analysis exists.
C15_UnusedFolderNeverEmpty ==
    [][(last'.name = "organize" /\ last'.move_unused)
         => /\ UNUSED \in dirs' => ~DirEmpty(files', dirs', scenes, UNUSED)
            /\ (UNUSED \notin dirs /\ UNUSED \in dirs')
                  => \E p \in analysis.unused : Exists(files, p)]_vars

\* C15 witness: a run with move_unused set made the unused folder, every move
\* into it failed, and the folder is gone again.
C15_Witness ==
    /\ last.name = "organize" /\ last.move_unused
    /\ UNUSED \notin dirs
    /\ \E i \in DOMAIN last.result.operations :
          /\ last.result.operations[i].destination[1] = UNUSED
          /\ ~last.result.operations[i].success

\* ---------------------------------------------------------------- C17
\* C17: after reconciliation every file record is in exactly one of linked and
\* unused, and it is in linked with is_used true exactly when its name, in
\* lower case, is the lower-case name of some reference path.
C17_LinkedIffNameReferenced ==
    \A i \in DOMAIN report : report[i].scanned =>
        \A f \in report[i].all_files_info :
            /\ (f \in report[i].linked_files) # (f \in report[i].unused_files)
            /\ (f \in report[i].linked_files /\ report[i].is_used[f])
                  <=> \E r \in report[i].all_used_assets : NameLower(r) = NameLower(f)
            /\ f \in report[i].unused_files => ~report[i].is_used[f]

\* A file is linked through a reference written in another case, next to an unused one.
C17_Witness ==
    \E i \in DOMAIN report :
        /\ report[i].scanned
        /\ \E f \in report[i].linked_files : \E r \in report[i].all_used_assets :
              NameLower(r) = NameLower(f) /\ NameExact(r) # NameExact(f)
        /\ report[i].unused_files # {}

\* ---------------------------------------------------------------- C18
\* C18 as stated: a reference path is in missing exactly when its lower-case
\* name is the name of no file record and no file exists at the path itself.
C18_MissingIffNoRecordNamed ==
    \A i \in DOMAIN report : report[i].scanned =>
        \A r \in report[i].all_used_assets :
            r \in report[i].missing_files
               <=> /\ \A f \in report[i].all_files_info : NameLower(r) # NameExact(f)
                   /\ ~LiteralExists(tree, outside, r)

\* C18: a reference path is in missing exactly when its lower-case name is
\* the lower-case name of no file record and no file exists at the path itself.
C18_MissingIffNoRecordNamedLower ==
    \A i \in DOMAIN report : report[i].scanned =>
        \A r \in report[i].all_used_assets :
            r \in report[i].missing_files
               <=> /\ \A f \in report[i].all_files_info : NameLower(r) # NameLower(f)
                   /\ ~LiteralExists(tree, outside, r)

\* One reference is missing; another, named like no file record, is not,
\* because a file exists at its path.
C18_Witness ==
    \E i \in DOMAIN report :
        /\ report[i].scanned
        /\ report[i].missing_files # {}
        /\ \E r \in report[i].all_used_assets \ report[i].missing_files :
              /\ \A f \in report[i].all_files_info : NameLower(r) # NameLower(f)
              /\ LiteralExists(tree, outside, r)

\* ---------------------------------------------------------------- C19
\* C19: the walk yields a record for exactly the files under the project root
\* whose extension is in the allowlist and which are not under the project's
\* unused folder.
C19_WalkExcludesOnlyUnusedFolder ==
    \A i \in DOMAIN report : report[i].scanned =>
        report[i].all_files_info =
            {f \in tree : Lower(f.ext) \in ALL_EXTENSIONS /\ ~Within(f.dir, UNUSED)}

\* ---------------------------------------------------------------- C20
\* What parse_scene may fail on: a missing file, a wrong suffix, a file that
\* is no container, a container that cannot be opened, a stream that cannot be read.
ParseFailure(doc) ==
    \/ ~doc.exists
    \/ Lower(doc.suffix) # ".max"
    \/ doc.container # "ole"
    \/ \E k \in DOMAIN doc.streams : ~doc.streams[k].readable

\* C20: every failure of parse_scene is recorded in the error list, and
\* whenever a failure is recorded the texture, proxy and other sets are empty.
C20_FailureRecordedAndSetsEmpty ==
    \A i \in DOMAIN parsed :
        /\ ParseFailure(scene_doc) => parsed[i].errors # <<>>
        /\ parsed[i].errors # <<>> =>
              /\ parsed[i].textures = {}
              /\ parsed[i].proxies = {}
              /\ parsed[i].other_assets = {}

\* ---------------------------------------------------------------- C21
\* The same path but for the case of its letters
SamePathIgnoringCase(a, b) == a.dir = b.dir /\ NameLower(a) = NameLower(b)

\* C21: after parse_scene, within each of the texture, proxy and other sets no
\* two entries are equal when compared case-insensitively.
C21_NoCaseDuplicates ==
    \A i \in DOMAIN parsed :
        \A set \in {parsed[i].textures, parsed[i].proxies, parsed[i].other_assets} :
            \A a, b \in set : SamePathIgnoringCase(a, b) => a = b

\* ---------------------------------------------------------------- C22
\* C22: can_undo() is true if and only if the log is non-empty, its most
\* recent entry has success = true and that entry's type is not RESTORE.
C22_CanUndoIff ==
    can_undo(operations)
        <=> \E n \in DOMAIN operations :
               /\ n = Len(operations)
               /\ operations[n].success
               /\ operations[n].type \in {"move", "copy", "delete"}

\* An undo has just appended its RESTORE entry, so nothing can be undone.
C22_Witness ==
    /\ last.name = "undo" /\ last.ret
    /\ operations # <<>>
    /\ LastOp.type = "restore" /\ LastOp.success
    /\ ~can_undo(operations)

\* ---------------------------------------------------------------- C23
\* The metadata the backup manager works on: its own, or the file it loads.
LoadedMetadata == IF metadata.has THEN metadata.m ELSE metaDisk[seed]

\* The backup files of a run of this process
RunStore(store, run) ==
    [k \in {x \in DOMAIN store : x[1] = seed /\ x[2] = run} |-> store[k]]

InUnused(fs, name, c) == Exists(fs, <<UNUSED, name>>) /\ fs[<<UNUSED, name>>] = c

\* C24: a supported file referenced by no scene is in unused after
\* reconciliation, and after a failure-free organize_assets run with
\* relocate-unused a file with its name and content is in the unused folder.
C24_UnreferencedEndsInUnused ==
    [][(last'.name = "organize" /\ last'.move_unused /\ analysis = AnalysisOf(files))
         => \A p \in DOMAIN files : p[2] \notin RefNames =>
               /\ p \in analysis.unused
               /\ InUnused(files', p[2], files[p])]_vars

\* ---------------------------------------------------------------- C25
\* Whether the maps folder holds a file of fingerprint fp when organize_assets
\* makes the i-th filesystem call of its result: one that was there at the
\* start and has not been taken away, or one an earlier call put there.
InMapsAt(i, fp) ==
    LET ops == last'.result.operations
    IN \/ \E q \in DOMAIN files :
             /\ q[1] = MAPS /\ files[q].fp = fp
             /\ ~\E j \in 1..(i - 1) :
                   ops[j].success /\ ops[j].source = q /\ ops[j].action # "copied"
       \/ \E j \in 1..(i - 1) :
             /\ ops[j].success /\ ops[j].action # "deleted_duplicate"
             /\ ops[j].destination[1] = MAPS
             /\ Exists(files, ops[j].source) /\ files[ops[j].source].fp = fp

\* C25: organize_assets deletes a file as a duplicate only when, at that
\* moment, a file of the same fingerprint is in the canonical maps folder,
\* whatever the outcome of the earlier operations of the run.
C25_DeleteOnlyWithCopyInMaps ==
    [][(last'.name = "organize" /\ analysis = AnalysisOf(files))
         => \A i \in DOMAIN last'.result.operations :
               LET op == last'.result.operations[i]
               IN (op.success /\ op.action = "deleted_duplicate")
                  => InMapsAt(i, files[op.source].fp)]_vars

\* ---------------------------------------------------------------- C26
\* C26: organize_assets never removes a file outside every scene document's
\* directory subtree: the file is at its path, unchanged, after the run.
C26_OutsideFilesStay ==
    [][last'.name = "organize"
         => \A p \in DOMAIN files :
               ~InSceneSubtree(p) => Exists(files', p) /\ files'[p] = files[p]]_vars

\* ---------------------------------------------------------------- C27
\* C27: undo_last of a DELETE changes only the deleted file's path: every
\* other path holds after the call what it held before.
C27_UndoDeleteTouchesOnePath ==
    [][(UndoStep /\ LastOp.type = "delete")
         => \A p \in DOMAIN files \cup DOMAIN files' :
               p # LastOp.source
                  => /\ Exists(files, p) /\ Exists(files', p)
                     /\ files'[p] = files[p]]_vars

\* ---------------------------------------------------------------- C28
\* C28: undo_last returns true only if the last operation was reversed: an
\* undone MOVE has its file back at the source, an undone COPY has no file at
\* the destination, an undone DELETE has its file again at its path.
C28_TrueOnlyIfReversed ==
    [][(UndoStep /\ last'.ret)
         => /\ LastOp.type = "move" => Exists(files', LastOp.source)
            /\ LastOp.type = "copy" => ~Exists(files', LastOp.destination)
            /\ LastOp.type = "delete" => Exists(files', LastOp.source)]_vars

\* ---------------------------------------------------------------- C29
\* The filesystem calls of a second organize_assets run, with the options of
\* the run just made, on the folder as that run leaves it.
SecondRun(linked_files, unused_files) ==
    organize_assets(
        [files |-> files', dirs |-> dirs', ops |-> operations',
         meta |-> metadata'.m, has_bm |-> metadata'.has, store |-> bstore',
         res |-> <<>>, moved |-> 0, deleted |-> 0, skipped |-> 0],
        [enable_backup |-> enable_backup,
         backup_id |-> IF enable_backup THEN nextRun' + 1 ELSE NoRun, seed |-> seed,
         scenes |-> scenes, disk |-> metaDisk', expired |-> expired,
         create_maps_folder |-> last'.create_maps_folder,
         move_unused |-> last'.move_unused,
         copy_instead_of_move |-> last'.copy_instead_of_move,
         delete_duplicates |-> last'.delete_duplicates, denied |-> {}],
        linked_files, unused_files).res

\* C29: after a failure-free organize_assets run, analysing the folder again
\* and organizing again performs no move, copy or delete.
C29_SecondRunDoesNothing ==
    [][(last'.name = "organize" /\ analysis = AnalysisOf(files))
         => \A linked_files \in Orders(AnalysisOf(files').linked) :
            \A unused_files \in Orders(AnalysisOf(files').unused) :
               SecondRun(linked_files, unused_files) = <<>>]_vars

\* ---------------------------------------------------------------- C30
\* C30: no entry of the persisted log is lost by an append, or by the removal
\* and save of other entries, made through any OperationHistory object.
C30_NoEntryLost ==
    [][\A k \in DOMAIN historyFile :
          (last'.name = "delete_selected_folder" => historyFile[k].backup_id # last'.run)
             => \E n \in DOMAIN historyFile' : historyFile'[n] = historyFile[k]]_vars

====
